---- MODULE Spec2Model ----
(***************************************************************************)
(* Papyrus Notes API (src/main.py): the note store behind the FastAPI      *)
(* handlers create_note, list_notes, delete_note, update_note and the      *)
(* health probe test_database.                                             *)
(*                                                                         *)
(* Text is a sequence of one-character strings, so that substring and      *)
(* regular-expression matching are computed.  An absent optional value     *)
(* (Python None) is the empty tuple None, a present one is <<v>>.          *)
(* A stored document is a function from field names to values; a field a   *)
(* document lacks is outside its DOMAIN.  Timestamps are integers.         *)
(***************************************************************************)
EXTENDS Integers, Sequences, FiniteSets, TLC

VARIABLES
    db,       \* the process-wide handle: "none" (db is None), "up", "down"
    store,    \* collection "note": documents in natural (insertion) order
    nextOid,  \* the next ObjectId the store assigns
    clock,    \* the store's clock, stamped on created documents; it has
              \* advanced by the next insert
    last,     \* the request just served atomically, with its response, until
              \* the response is returned; op "none" when there is none
    created,  \* history: the notes created, with the id returned, the payload
              \* supplied, and whether no update or delete has touched them
    nUpdates, \* history: the number of updates applied
    reqs      \* requests in flight, for the interleaved handlers

vars == <<db, store, nextOid, clock, last, created, nUpdates, reqs>>

-----------------------------------------------------------------------------
(* Bounds *)

MaxCreates == 2
MaxUpdates == 1
OidLen == 2
NumReqs == 2

-----------------------------------------------------------------------------
(* Optional values and dictionaries *)

None == <<>>

Some(v) == <<v>>

Get(d, k, default) == IF k \in DOMAIN d THEN d[k] ELSE default

Pop(d, k) == [x \in DOMAIN d \ {k} |-> d[x]]

-----------------------------------------------------------------------------
(* ObjectId: str(ObjectId) renders lowercase hex; ObjectId(str) accepts    *)
(* hex of either case and raises InvalidId on anything else.               *)

Hex == <<"0", "1", "2", "3", "4", "5", "6", "7", "8", "9",
         "a", "b", "c", "d", "e", "f">>

UpperHex == <<"0", "1", "2", "3", "4", "5", "6", "7", "8", "9",
              "A", "B", "C", "D", "E", "F">>

FirstOid == 10

LegacyOid == 9

RECURSIVE Pow16(_)
Pow16(n) == IF n = 0 THEN 1 ELSE 16 * Pow16(n - 1)

OidStr(n) == [i \in 1..OidLen |-> Hex[((n \div Pow16(OidLen - i)) % 16) + 1]]

OidStrUpper(n) == [i \in 1..OidLen |-> UpperHex[((n \div Pow16(OidLen - i)) % 16) + 1]]

IsHexChar(c) == \E k \in 1..16 : Hex[k] = c \/ UpperHex[k] = c

HexVal(c) == (CHOOSE k \in 1..16 : Hex[k] = c \/ UpperHex[k] = c) - 1

RECURSIVE HexNum(_)
HexNum(s) ==
    IF s = <<>> THEN 0
    ELSE 16 * HexNum(SubSeq(s, 1, Len(s) - 1)) + HexVal(s[Len(s)])

\* ObjectId(s) raises InvalidId unless s is OidLen hex characters
ValidOid(s) == Len(s) = OidLen /\ \A i \in 1..Len(s) : IsHexChar(s[i])

ObjectId(s) == HexNum(s)

-----------------------------------------------------------------------------
(* Text: MongoDB $regex with option "i", as list_notes passes q to it.     *)
(* The pattern language modelled: a literal character matches itself up    *)
(* to case, "." matches any character, and an unbalanced "(" makes the     *)
(* pattern invalid (the store raises).                                     *)

Lower(c) ==
    CASE c = "F" -> "f"
      [] c = "O" -> "o"
      [] c = "A" -> "a"
      [] c = "X" -> "x"
      [] OTHER -> c

RegexValid(p) == \A i \in 1..Len(p) : p[i] # "("

RegexMatchAt(p, s, k) ==
    \A i \in 1..Len(p) : p[i] = "." \/ Lower(p[i]) = Lower(s[k + i - 1])

RegexSearch(p, s) == \E k \in 1..(Len(s) - Len(p) + 1) : RegexMatchAt(p, s, k)

-----------------------------------------------------------------------------
(* Stored documents *)

NoteFields == {"title", "content", "tags", "color", "is_pinned", "mood"}

\* A document the collection held before the process started: it has none
\* of the fields serialize_note and the sort key give defaults for.
LegacyDoc == [_id |-> LegacyOid, title |-> <<"F", "o">>]

Ids(coll) == {coll[i]._id : i \in 1..Len(coll)}

\* Python truthiness of a str or None query parameter
Truthy(opt) == opt # None /\ opt[1] # <<>>

-----------------------------------------------------------------------------
(* serialize_note *)

\* faulty variant: the identifier taken from the document's own "id" field
serialize_note_client_id(doc) ==
    [id        |-> Get(doc, "id", OidStr(doc._id)),
     title     |-> Get(doc, "title", <<>>),
     content   |-> Get(doc, "content", <<>>),
     tags      |-> Get(doc, "tags", <<>>),
     color     |-> Get(doc, "color", None),
     is_pinned |-> Get(doc, "is_pinned", FALSE),
     mood      |-> Get(doc, "mood", None)]

\* faulty variant: tags left out of the output
serialize_note_no_tags(doc) ==
    [id        |-> OidStr(doc._id),
     title     |-> Get(doc, "title", <<>>),
     content   |-> Get(doc, "content", <<>>),
     tags      |-> <<>>,
     color     |-> Get(doc, "color", None),
     is_pinned |-> Get(doc, "is_pinned", FALSE),
     mood      |-> Get(doc, "mood", None)]

serialize_note(doc) ==
    [id        |-> OidStr(doc._id),
     title     |-> Get(doc, "title", <<>>),
     content   |-> Get(doc, "content", <<>>),
     tags      |-> Get(doc, "tags", <<>>),
     color     |-> Get(doc, "color", None),
     is_pinned |-> Get(doc, "is_pinned", FALSE),
     mood      |-> Get(doc, "mood", None)]

-----------------------------------------------------------------------------
(* list_notes: the filter, the store's find, the sort *)

\* faulty variant: "if pinned:" in place of "if pinned is not None:"
FilterDictTruthyPinned(tag, q, pinned) ==
    [tags      |-> IF Truthy(tag) THEN tag ELSE None,
     is_pinned |-> IF pinned # None /\ pinned[1] THEN pinned ELSE None,
     or        |-> IF Truthy(q) THEN q ELSE None]

FilterDict(tag, q, pinned) ==
    [tags      |-> IF Truthy(tag) THEN tag ELSE None,
     is_pinned |-> IF pinned # None THEN pinned ELSE None,
     or        |-> IF Truthy(q) THEN q ELSE None]

\* faulty variant: tags compared up to case
MatchTagsNoCase(doc, tag) ==
    "tags" \in DOMAIN doc /\ \E i \in 1..Len(doc.tags) :
        Len(doc.tags[i]) = Len(tag) /\ RegexMatchAt(tag, doc.tags[i], 1)

\* {"tags": {"$in": [tag]}}: the array field holds the value
MatchTags(doc, tag) ==
    "tags" \in DOMAIN doc /\ \E i \in 1..Len(doc.tags) : doc.tags[i] = tag

\* {"is_pinned": pinned}: the field is present and equal
MatchPinned(doc, p) == "is_pinned" \in DOMAIN doc /\ doc.is_pinned = p

\* {field: {"$regex": q, "$options": "i"}}
MatchRegex(doc, field, q) == field \in DOMAIN doc /\ RegexSearch(q, doc[field])

Matches(doc, fd) ==
    /\ fd.tags # None => MatchTags(doc, fd.tags[1])
    /\ fd.is_pinned # None => MatchPinned(doc, fd.is_pinned[1])
    /\ fd.or # None => MatchRegex(doc, "title", fd.or[1]) \/ MatchRegex(doc, "content", fd.or[1])

RECURSIVE Find(_, _)
Find(coll, fd) ==
    IF coll = <<>> THEN <<>>
    ELSE IF Matches(Head(coll), fd)
         THEN <<Head(coll)>> \o Find(Tail(coll), fd)
         ELSE Find(Tail(coll), fd)

\* the store raises on a filter it cannot compile
FindRaises(fd) == fd.or # None /\ ~RegexValid(fd.or[1])

\* faulty variant: the key without the negation
SortKeyNoNot(d) == <<Get(d, "is_pinned", FALSE), Get(d, "created_at", 0)>>

\* key=lambda d: (not d.get("is_pinned", False), d.get("created_at", 0))
SortKey(d) == <<~Get(d, "is_pinned", FALSE), Get(d, "created_at", 0)>>

\* Python tuple order, False < True
KeyLess(a, b) ==
    \/ a[1] = FALSE /\ b[1] = TRUE
    \/ a[1] = b[1] /\ a[2] < b[2]

\* x goes after every element whose key is not greater: the sort is stable
RECURSIVE InsertSorted(_, _)
InsertSorted(x, sorted) ==
    IF sorted = <<>> THEN <<x>>
    ELSE IF KeyLess(SortKey(x), SortKey(Head(sorted)))
         THEN <<x>> \o sorted
         ELSE <<Head(sorted)>> \o InsertSorted(x, Tail(sorted))

RECURSIVE SortDocs(_)
SortDocs(docs) ==
    IF docs = <<>> THEN <<>>
    ELSE InsertSorted(docs[Len(docs)], SortDocs(SubSeq(docs, 1, Len(docs) - 1)))

ListBody(coll, tag, q, pinned) ==
    LET docs == SortDocs(Find(coll, FilterDict(tag, q, pinned)))
    IN  [i \in 1..Len(docs) |-> serialize_note(docs[i])]

-----------------------------------------------------------------------------
(* The store's write operations *)

\* create_document: the store assigns _id and both timestamps
NewDoc(note, oid, now) ==
    [_id |-> oid, title |-> note.title, content |-> note.content,
     tags |-> note.tags, color |-> note.color, is_pinned |-> note.is_pinned,
     mood |-> note.mood, created_at |-> now, updated_at |-> Some(now)]

\* index of the first document with this _id, 0 when there is none
FirstIndex(coll, oid) ==
    IF \E i \in 1..Len(coll) : coll[i]._id = oid
    THEN CHOOSE i \in 1..Len(coll) :
            coll[i]._id = oid /\ \A j \in 1..(i - 1) : coll[j]._id # oid
    ELSE 0

\* delete_one({"_id": oid}): [deleted_count, coll]
DeleteOne(coll, oid) ==
    LET i == FirstIndex(coll, oid)
    IN  IF i = 0
        THEN [deleted_count |-> 0, coll |-> coll]
        ELSE [deleted_count |-> 1,
              coll |-> SubSeq(coll, 1, i - 1) \o SubSeq(coll, i + 1, Len(coll))]

\* update_one({"_id": oid}, {"$set": setdoc}): [raised, matched_count, coll].
\* The store refuses a $set that would modify _id of the matched document.
UpdateOne(coll, oid, setdoc) ==
    LET i == FirstIndex(coll, oid)
    IN  IF i = 0
        THEN [raised |-> FALSE, matched_count |-> 0, coll |-> coll]
        ELSE IF "_id" \in DOMAIN setdoc
        THEN [raised |-> TRUE, matched_count |-> 0, coll |-> coll]
        ELSE [raised |-> FALSE, matched_count |-> 1,
              coll |-> [coll EXCEPT ![i] = setdoc @@ coll[i]]]

-----------------------------------------------------------------------------
(* update_note and delete_note, step by step *)

\* payload.pop("_id", None)
StripId(payload) == Pop(payload, "_id")

\* payload["updated_at"] = payload.get("updated_at")
SetDoc(payload) ==
    LET p == StripId(payload)
    IN  ("updated_at" :> Get(p, "updated_at", None)) @@ p

\* faulty variant: the count not looked at
DeleteResponseAlwaysOk(deleted_count) == 200

\* the response decided by result.deleted_count
DeleteResponse(deleted_count) == IF deleted_count = 0 THEN 404 ELSE 200

\* faulty variant: the count not looked at
UpdateResponseAlwaysOk(matched_count) == 200

\* the response decided by result.matched_count
UpdateResponse(matched_count) == IF matched_count = 0 THEN 404 ELSE 200

\* [status, coll] of delete_note(note_id) served on coll with handle h
delete_note(h, coll, note_id) ==
    IF h = "none" \/ ~ValidOid(note_id) \/ h = "down"
    THEN [status |-> 500, coll |-> coll]
    ELSE LET result == DeleteOne(coll, ObjectId(note_id))
         IN  [status |-> DeleteResponse(result.deleted_count), coll |-> result.coll]

\* [status, coll] of update_note(note_id, payload)
update_note(h, coll, note_id, payload) ==
    IF h = "none" \/ ~ValidOid(note_id) \/ h = "down"
    THEN [status |-> 500, coll |-> coll]
    ELSE LET result == UpdateOne(coll, ObjectId(note_id), SetDoc(payload))
         IN  IF result.raised
             THEN [status |-> 500, coll |-> coll]
             ELSE [status |-> UpdateResponse(result.matched_count), coll |-> result.coll]

-----------------------------------------------------------------------------
(* test_database *)

TruncLen == 120

\* faulty variant: the text not cut
TruncateNothing(text) == text

\* str(e)[:120]
Truncate(text) == SubSeq(text, 1, IF Len(text) < TruncLen THEN Len(text) ELSE TruncLen)

\* db.list_collection_names(): the store creates a collection on first insert
CollectionNames(coll) == IF coll = <<>> THEN <<>> ELSE <<"note">>

\* the response dictionary, assignment by assignment; msg is the text of the
\* exception list_collection_names raises when the handle is down
test_database(h, coll, msg) ==
    LET response == [backend |-> "Running",
                     database |-> [form |-> "Not Available", text |-> <<>>]]
    IN  IF h = "none"
        THEN [response EXCEPT !.database = [form |-> "Not Connected", text |-> <<>>]]
        ELSE LET connected == [response EXCEPT !.database = [form |-> "Connected", text |-> <<>>]]
             IN  IF h = "down"
                 THEN [connected EXCEPT !.database = [form |-> "Error", text |-> Truncate(msg)]]
                 ELSE [backend |-> connected.backend, database |-> connected.database,
                       collections |-> CollectionNames(coll)]

-----------------------------------------------------------------------------
(* Inputs *)

PinnedNote ==
    [title |-> <<"F", "o">>, content |-> <<>>, tags |-> << <<"x">> >>,
     color |-> None, is_pinned |-> TRUE, mood |-> None]

PlainNote ==
    [title |-> <<"a", "b">>, content |-> <<"f", "O">>, tags |-> << <<"X">>, <<"y">> >>,
     color |-> Some("red"), is_pinned |-> FALSE, mood |-> Some("calm")]

NotePayloads == {PinnedNote, PlainNote}

TitleOnly == [title |-> <<"n", "e", "w">>]

WithStoreId == [_id |-> OidStr(FirstOid + 1), title |-> <<"n", "e", "w">>]

WithId == [id |-> OidStr(FirstOid + 1)]

UpdatePayloads ==
    { TitleOnly,
      WithStoreId,
      WithId,
      [is_pinned |-> TRUE],
      [created_at |-> 0, updated_at |-> Some(0)] }

\* identifiers as the store renders them
StoreIdStrings == {OidStr(n) : n \in LegacyOid..(FirstOid + MaxCreates - 1)}

\* and as a client may also write them: upper case, too long, not hexadecimal
IdStrings ==
    StoreIdStrings
        \cup {OidStrUpper(FirstOid), OidStr(FirstOid) \o <<"0">>, [i \in 1..OidLen |-> "g"]}

UpdateRequests ==
    (IdStrings \X {TitleOnly, WithStoreId, WithId}) \cup (StoreIdStrings \X UpdatePayloads)

TagParams == {None, Some(<<"x">>), Some(<<"X">>), Some(<<>>)}

QParams == {None, Some(<<>>), Some(<<"f", "o">>), Some(<<".">>), Some(<<"a", ".">>), Some(<<"(">>)}

PinnedParams == {None, Some(TRUE), Some(FALSE)}

\* the query strings tried: one filter alone, pinned with one other filter,
\* and all three together
Queries ==
    {<<tag, None, None>> : tag \in TagParams}
        \cup {<<None, q, None>> : q \in QParams}
        \cup {<<None, None, pinned>> : pinned \in PinnedParams}
        \cup {<<Some(<<"x">>), None, pinned>> : pinned \in {Some(TRUE), Some(FALSE)}}
        \cup {<<None, Some(<<"f", "o">>), pinned>> : pinned \in {Some(TRUE), Some(FALSE)}}
        \cup {<<Some(<<"x">>), Some(<<"f", "o">>), pinned>> : pinned \in PinnedParams}

ErrTexts == {[i \in 1..n |-> "e"] : n \in {0, 7, TruncLen, TruncLen + 1}}

Idle == [pc |-> "idle"]

NoRequest == [op |-> "none"]

-----------------------------------------------------------------------------
(* The state after start-up *)

Init ==
    /\ db \in {"none", "up"}
    /\ store \in (IF db = "none" THEN {<<>>} ELSE {<<>>, <<LegacyDoc>>})
    /\ nextOid = FirstOid
    /\ clock = 1
    /\ last = NoRequest
    /\ created = <<>>
    /\ nUpdates = 0
    /\ reqs = [r \in 1..NumReqs |-> Idle]

-----------------------------------------------------------------------------
(* The environment: the connection fails and recovers *)

DbFail == db = "up" /\ db' = "down" /\ UNCHANGED <<store, nextOid, clock, last, created, nUpdates, reqs>>

DbRecover == db = "down" /\ db' = "up" /\ UNCHANGED <<store, nextOid, clock, last, created, nUpdates, reqs>>

\* history: the notes that are no longer as created
Touch(hist, oid) ==
    [i \in 1..Len(hist) |->
        IF ObjectId(hist[i].id) = oid THEN [hist[i] EXCEPT !.live = FALSE] ELSE hist[i]]

-----------------------------------------------------------------------------
(* The handlers, each served atomically *)

CreateNote(note) ==
    /\ last = NoRequest
    /\ nextOid < FirstOid + MaxCreates
    /\ IF db = "up"
       THEN /\ store' = Append(store, NewDoc(note, nextOid, clock))
            /\ nextOid' = nextOid + 1
            /\ clock' = clock + 1
            /\ last' = [op |-> "create", note |-> note, db |-> db,
                        status |-> 200, id |-> OidStr(nextOid)]
            /\ created' = Append(created, [id |-> OidStr(nextOid), note |-> note, live |-> TRUE])
       ELSE /\ last' = [op |-> "create", note |-> note, db |-> db, status |-> 500]
            /\ UNCHANGED <<store, nextOid, clock, created>>
    /\ UNCHANGED <<db, nUpdates, reqs>>

ListNotes(tag, q, pinned) ==
    /\ last = NoRequest
    /\ last' = [op |-> "list", tag |-> tag, q |-> q, pinned |-> pinned, db |-> db] @@
               (IF db # "up" \/ FindRaises(FilterDict(tag, q, pinned))
                THEN [status |-> 500]
                ELSE [status |-> 200, body |-> ListBody(store, tag, q, pinned)])
    /\ UNCHANGED <<db, store, nextOid, clock, created, nUpdates, reqs>>

DeleteNote(note_id) ==
    LET out == delete_note(db, store, note_id)
    IN  /\ last = NoRequest
        /\ store' = out.coll
        /\ last' = [op |-> "delete", note_id |-> note_id, db |-> db, pre |-> store,
                    status |-> out.status]
        /\ created' = IF out.status = 200 THEN Touch(created, ObjectId(note_id)) ELSE created
        /\ UNCHANGED <<db, nextOid, clock, nUpdates, reqs>>

UpdateNote(note_id, payload) ==
    LET out == update_note(db, store, note_id, payload)
    IN  /\ last = NoRequest
        /\ out.status = 200 => nUpdates < MaxUpdates
        /\ nUpdates' = IF out.status = 200 THEN nUpdates + 1 ELSE nUpdates
        /\ store' = out.coll
        /\ last' = [op |-> "update", note_id |-> note_id, payload |-> payload, db |-> db,
                    pre |-> store, status |-> out.status]
        /\ created' = IF out.status = 200 THEN Touch(created, ObjectId(note_id)) ELSE created
        /\ UNCHANGED <<db, nextOid, clock, reqs>>

TestDatabase(msg) ==
    /\ last = NoRequest
    /\ last' = [op |-> "test", db |-> db, msg |-> msg, status |-> 200,
                body |-> test_database(db, store, msg)]
    /\ UNCHANGED <<db, store, nextOid, clock, created, nUpdates, reqs>>

\* the response leaves the server
Return ==
    /\ last # NoRequest
    /\ last' = NoRequest
    /\ UNCHANGED <<db, store, nextOid, clock, created, nUpdates, reqs>>

-----------------------------------------------------------------------------
(* delete_note and update_note as concurrent requests: the handler's entry *)
(* (the handle check, the identifier parsed), its one store operation, and *)
(* the response computed from the operation's result.                      *)

ConcIds == {OidStr(LegacyOid), OidStr(FirstOid), [i \in 1..OidLen |-> "g"]}

Call(r, op, note_id) ==
    /\ reqs[r].pc = "idle"
    /\ reqs' = [reqs EXCEPT ![r] =
           IF db = "none" \/ ~ValidOid(note_id)
           THEN [pc |-> "done", op |-> op, note_id |-> note_id, existed |-> FALSE,
                 reached |-> FALSE, status |-> 500]
           ELSE [pc |-> "called", op |-> op, note_id |-> note_id,
                 existed |-> ObjectId(note_id) \in Ids(store)]]
    /\ UNCHANGED <<db, store, nextOid, clock, last, created, nUpdates>>

StoreOp(r) ==
    /\ reqs[r].pc = "called"
    /\ LET oid == ObjectId(reqs[r].note_id)
           result == IF reqs[r].op = "delete"
                     THEN [raised |-> FALSE, count |-> DeleteOne(store, oid).deleted_count,
                           coll |-> DeleteOne(store, oid).coll]
                     ELSE [raised |-> UpdateOne(store, oid, SetDoc(TitleOnly)).raised,
                           count |-> UpdateOne(store, oid, SetDoc(TitleOnly)).matched_count,
                           coll |-> UpdateOne(store, oid, SetDoc(TitleOnly)).coll]
       IN  IF db = "down"
           THEN /\ reqs' = [reqs EXCEPT ![r] =
                       [pc |-> "stored", op |-> reqs[r].op, note_id |-> reqs[r].note_id,
                        existed |-> reqs[r].existed, raised |-> TRUE, count |-> 0,
                        saw |-> FALSE]]
                /\ UNCHANGED store
           ELSE /\ reqs' = [reqs EXCEPT ![r] =
                       [pc |-> "stored", op |-> reqs[r].op, note_id |-> reqs[r].note_id,
                        existed |-> reqs[r].existed, raised |-> result.raised,
                        count |-> result.count, saw |-> oid \in Ids(store)]]
                /\ store' = result.coll
    /\ UNCHANGED <<db, nextOid, clock, last, created, nUpdates>>

Respond(r) ==
    /\ reqs[r].pc = "stored"
    /\ reqs' = [reqs EXCEPT ![r] =
           [pc |-> "done", op |-> reqs[r].op, note_id |-> reqs[r].note_id,
            existed |-> reqs[r].existed, reached |-> ~reqs[r].raised, saw |-> reqs[r].saw,
            status |-> IF reqs[r].raised THEN 500
                       ELSE IF reqs[r].op = "delete" THEN DeleteResponse(reqs[r].count)
                       ELSE UpdateResponse(reqs[r].count)]]
    /\ UNCHANGED <<db, store, nextOid, clock, last, created, nUpdates>>

NextConc ==
    \/ DbFail
    \/ DbRecover
    \/ CreateNote(PlainNote)
    \/ Return
    \/ \E r \in 1..NumReqs, op \in {"delete", "update"}, note_id \in ConcIds : Call(r, op, note_id)
    \/ \E r \in 1..NumReqs : StoreOp(r)
    \/ \E r \in 1..NumReqs : Respond(r)

SpecConc == Init /\ [][NextConc]_vars

Next ==
    \/ DbFail
    \/ DbRecover
    \/ \E note \in NotePayloads : CreateNote(note)
    \/ \E query \in Queries : ListNotes(query[1], query[2], query[3])
    \/ \E note_id \in IdStrings : DeleteNote(note_id)
    \/ \E request \in UpdateRequests : UpdateNote(request[1], request[2])
    \/ \E msg \in ErrTexts : TestDatabase(msg)
    \/ Return

Spec == Init /\ [][Next]_vars

-----------------------------------------------------------------------------
(* Vocabulary of the properties *)

\* the stored document an output note renders
DocOf(coll, id) == coll[FirstIndex(coll, ObjectId(id))]

BodyIds(body) == {body[i].id : i \in 1..Len(body)}

\* the identifiers, as rendered, of the documents of coll that satisfy P
IdsWhere(coll, P(_)) == {OidStr(coll[i]._id) : i \in {j \in 1..Len(coll) : P(coll[j])}}

ListOk == last.op = "list" /\ last.status = 200

\* q occurs in s, compared case-insensitively
OccursIn(q, s) ==
    \E k \in 1..(Len(s) - Len(q) + 1) : \A i \in 1..Len(q) : Lower(q[i]) = Lower(s[k + i - 1])

UpdateDone == last.op = "update"

\* C2 as stated: a successful update with {"title": "new"} changes the title
\* of that note and nothing else: its other fields and the other notes stay.
C2_OnlyTitleChanges ==
    UpdateDone /\ last.payload = TitleOnly /\ last.status = 200 =>
        LET i == FirstIndex(last.pre, ObjectId(last.note_id))
        IN  /\ Len(store) = Len(last.pre)
            /\ \A k \in 1..Len(store) : k # i => store[k] = last.pre[k]
            /\ store[i].title = TitleOnly.title
            /\ DOMAIN store[i] = DOMAIN last.pre[i]
            /\ \A f \in (DOMAIN store[i] \cap DOMAIN last.pre[i]) \ {"title"} :
                  store[i][f] = last.pre[i][f]

\* C3 as stated: delete_note and update_note, served by a store that is
\* reachable, answer 404, never 500, and leave the store alone whenever the
\* identifier matches no record.
C3_NotFoundNever500 ==
    last.op \in {"delete", "update"} /\ last.db = "up"
        /\ ~(ValidOid(last.note_id) /\ ObjectId(last.note_id) \in Ids(last.pre)) =>
            last.status = 404 /\ store = last.pre

\* C3 amended: when the store is reachable and the identifier is well formed
\* and matches no record, delete_note and update_note answer 404 and leave
\* the store alone; a malformed identifier or an unreachable store gives 500,
\* the store again left alone.
C3_NotFoundWhenWellFormed ==
    last.op \in {"delete", "update"} =>
        /\ last.db = "up" /\ ValidOid(last.note_id)
              /\ ObjectId(last.note_id) \notin Ids(last.pre) =>
                    last.status = 404 /\ store = last.pre
        /\ last.db # "up" \/ ~ValidOid(last.note_id) =>
                    last.status = 500 /\ store = last.pre

\* the second delete of a note that was created and deleted
C3_Witness ==
    /\ last.op = "delete" /\ last.status = 404
    /\ \E c \in 1..Len(created) : created[c].id = last.note_id

Rendered(coll) == {serialize_note(coll[k]).id : k \in 1..Len(coll)}

\* C4: an update whose payload holds "id" or "_id" leaves every record under
\* the identifier it had, brings no record under the identifier the payload
\* names, and leaves the set of identifiers as it was.
C4_IdentityKept ==
    UpdateDone /\ DOMAIN last.payload \cap {"id", "_id"} # {} =>
        LET named == IF "_id" \in DOMAIN last.payload THEN last.payload._id ELSE last.payload.id
        IN  /\ Len(store) = Len(last.pre)
            /\ \A k \in 1..Len(store) :
                  /\ store[k]._id = last.pre[k]._id
                  /\ serialize_note(store[k]).id = serialize_note(last.pre[k]).id
            /\ Ids(store) = Ids(last.pre)
            /\ named \in Rendered(store) => named \in Rendered(last.pre)

\* an update was applied whose payload names an identifier that is neither
\* the target's nor any record's
C4_Witness ==
    /\ UpdateDone /\ last.status = 200
    /\ "id" \in DOMAIN last.payload
    /\ last.payload.id # last.note_id
    /\ last.payload.id \notin Rendered(last.pre)
    /\ "id" \in DOMAIN DocOf(store, last.note_id)

\* C5: with pinned given, only notes whose is_pinned equals it are returned,
\* and they are exactly the notes that pass the tag and q filters and store
\* that value; with pinned omitted, every note that passes the tag and q
\* filters is returned, pinned or not.
C5_PinnedFilter ==
    ListOk =>
        LET body == last.body
            others(d) == Matches(d, FilterDict(last.tag, last.q, None))
            both(d) == others(d) /\ "is_pinned" \in DOMAIN d /\ d.is_pinned = last.pinned[1]
        IN  IF last.pinned = None
            THEN BodyIds(body) = IdsWhere(store, others)
            ELSE /\ \A i \in 1..Len(body) : body[i].is_pinned = last.pinned[1]
                 /\ BodyIds(body) = IdsWhere(store, both)

\* pinned=false, together with a text filter, kept an unpinned note and left
\* out a pinned one that passes the text filter
C5_Witness ==
    /\ ListOk
    /\ last.pinned = Some(FALSE) /\ last.q # None
    /\ Len(last.body) > 0
    /\ \E i \in 1..Len(store) :
          /\ Matches(store[i], FilterDict(last.tag, last.q, None))
          /\ "is_pinned" \in DOMAIN store[i] /\ store[i].is_pinned

TagOnly == ListOk /\ last.tag # None /\ last.q = None /\ last.pinned = None

\* C6 as stated: for every tag value x given alone, the notes returned are
\* exactly the notes whose tags contain x.
C6_ExactTagEveryValue ==
    TagOnly =>
        LET has(d) == "tags" \in DOMAIN d /\ \E i \in 1..Len(d.tags) : d.tags[i] = last.tag[1]
        IN  BodyIds(last.body) = IdsWhere(store, has)

\* C6 amended: for every non-empty tag value x given alone, the notes
\* returned are exactly the notes whose tags contain x, compared exactly.
C6_ExactTagNonEmpty ==
    TagOnly /\ last.tag[1] # <<>> =>
        LET has(d) == "tags" \in DOMAIN d /\ \E i \in 1..Len(d.tags) : d.tags[i] = last.tag[1]
        IN  BodyIds(last.body) = IdsWhere(store, has)

\* tag=x returned a note and left out a note tagged X
C6_Witness ==
    /\ TagOnly
    /\ last.tag = Some(<<"x">>)
    /\ Len(last.body) = 1
    /\ \E i \in 1..Len(store) :
          /\ "tags" \in DOMAIN store[i]
          /\ \E k \in 1..Len(store[i].tags) : store[i].tags[k] = <<"X">>

\* C7: with q given alone, a note is returned if and only if q occurs,
\* compared case-insensitively, in its title or in its content.
C7_SubstringSearch ==
    ListOk /\ last.q # None /\ last.tag = None /\ last.pinned = None =>
        LET occurs(d) ==
                \/ "title" \in DOMAIN d /\ OccursIn(last.q[1], d.title)
                \/ "content" \in DOMAIN d /\ OccursIn(last.q[1], d.content)
        IN  BodyIds(last.body) = IdsWhere(store, occurs)

\* C8: an unfiltered list holds, for every note created and not since updated
\* or deleted, exactly one note with the identifier create_note returned, and
\* its fields are those supplied; the identifiers returned are distinct.
C8_RoundTrip ==
    /\ \A i, j \in 1..Len(created) : i # j => created[i].id # created[j].id
    /\ ListOk /\ last.tag = None /\ last.q = None /\ last.pinned = None =>
          \A c \in 1..Len(created) :
              created[c].live =>
                  /\ Cardinality({i \in 1..Len(last.body) : last.body[i].id = created[c].id}) = 1
                  /\ \A i \in 1..Len(last.body) :
                        last.body[i].id = created[c].id =>
                            \A f \in NoteFields : last.body[i][f] = created[c].note[f]

\* an unfiltered list that holds two created notes, one of them with tags,
\* a colour and a mood
C8_Witness ==
    /\ ListOk /\ last.tag = None /\ last.q = None /\ last.pinned = None
    /\ Len(created) = 2 /\ created[1].live /\ created[2].live
    /\ \E c \in 1..2 : created[c].note.tags # <<>> /\ created[c].note.color # None

\* C9: the probe answers, with backend running and database in one of three
\* forms: connected when the handle is there and the listing works, not
\* connected when there is no handle, and an error with the first 120
\* characters of the failure text when the listing fails.
C9_ProbeForms ==
    last.op = "test" =>
        /\ last.status = 200
        /\ last.body.backend = "Running"
        /\ last.body.database.form \in {"Connected", "Not Connected", "Error"}
        /\ last.body.database.form = "Connected" <=> last.db = "up"
        /\ last.body.database.form = "Not Connected" <=> last.db = "none"
        /\ last.body.database.form = "Error" <=> last.db = "down"
        /\ last.db = "down" =>
              /\ Len(last.body.database.text) <= TruncLen
              /\ Len(last.body.database.text) <= Len(last.msg)
              /\ \A i \in 1..Len(last.body.database.text) :
                    last.body.database.text[i] = last.msg[i]
              /\ Len(last.msg) <= TruncLen => last.body.database.text = last.msg

\* the listing failed with a text longer than 120 characters
C9_Witness == last.op = "test" /\ last.db = "down" /\ Len(last.msg) > TruncLen

Done(r) == reqs[r].pc = "done"

SameNote(r1, r2) ==
    /\ ValidOid(reqs[r1].note_id) /\ ValidOid(reqs[r2].note_id)
    /\ ObjectId(reqs[r1].note_id) = ObjectId(reqs[r2].note_id)

\* C10: a request answers ok only if the note was in the store when its own
\* store operation ran, and answers 404 when that operation ran and found no
\* note; of the deletes of one note at most one answers ok, and a delete
\* called while the note existed answers 404 only if another delete of that
\* note removed it.
C10_NoCheckThenAct ==
    /\ \A r \in 1..NumReqs :
          Done(r) =>
              /\ reqs[r].status = 200 => reqs[r].reached /\ reqs[r].saw
              /\ reqs[r].reached /\ ~reqs[r].saw => reqs[r].status = 404
              /\ reqs[r].reached /\ reqs[r].saw => reqs[r].status = 200
    /\ \A r1, r2 \in 1..NumReqs :
          r1 # r2 /\ Done(r1) /\ Done(r2)
              /\ reqs[r1].op = "delete" /\ reqs[r2].op = "delete"
              /\ reqs[r1].status = 200 /\ reqs[r2].status = 200 => ~SameNote(r1, r2)
    /\ \A r \in 1..NumReqs :
          Done(r) /\ reqs[r].op = "delete" /\ reqs[r].existed /\ reqs[r].status = 404 =>
              \E w \in 1..NumReqs :
                  /\ w # r /\ reqs[w].pc \in {"stored", "done"}
                  /\ reqs[w].op = "delete" /\ SameNote(w, r)
                  /\ reqs[w].pc = "stored" \/ reqs[w].reached
                  /\ reqs[w].saw

\* two deletes of one note, both called while it existed: one answered ok,
\* the other 404
C10_Witness ==
    \E r1, r2 \in 1..NumReqs :
        /\ r1 # r2 /\ Done(r1) /\ Done(r2) /\ SameNote(r1, r2)
        /\ reqs[r1].op = "delete" /\ reqs[r2].op = "delete"
        /\ reqs[r1].existed /\ reqs[r2].existed
        /\ reqs[r1].status = 200 /\ reqs[r2].status = 404

====
